---- MODULE Spec2Model ----
(***************************************************************************)
(* SLIP decoder High Level Analyzer (src/HighLevelAnalyzer.py, class Hla). *)
(*                                                                         *)
(* The analyzer owns three fields (escape, buffer, frame_start_time) and   *)
(* one entry point, decode(frame), which the host calls once per input     *)
(* frame.  The host side is modelled by a byte stream `input` that is      *)
(* handed to decode in consecutive chunks, each with a start/end time.     *)
(***************************************************************************)
EXTENDS Integers, Sequences, FiniteSets

(***************************************************************************)
(* Bounds of the model.                                                    *)
(***************************************************************************)
MaxStream == 3      \* longest arbitrary byte stream of Spec
MaxPayload == 3     \* longest payload of the framed-stream specifications
MaxTime == 3        \* timestamps are 0..MaxTime: at most MaxTime data frames
MaxFrames == 3      \* most frames in one chunk of MultiSpec
MaxSegments == 3    \* most segments in a stream of SegmentSpec

(***************************************************************************)
(* Program constants.                                                      *)
(***************************************************************************)
END == 192          \* 0xC0
ESC == 219          \* 0xDB
ESC_END == 220      \* 0xDC
ESC_ESC == 221      \* 0xDD

\* Python's None for frame_start_time; distinct from every timestamp.
None == -1

\* The byte values the host delivers: the four SLIP tokens, an ordinary
\* data byte (0x55) and a value wider than 8 bits (0x1C0, low byte 0xC0).
ByteValues == {END, ESC, ESC_END, ESC_ESC, 85, 448}

Times == 0..MaxTime

\* Truth value of `self.frame_start_time` in a conditional expression:
\* None is false, and so is a numeric timestamp equal to zero.
Truthy(t) == t # None /\ t # 0

HexDigits == <<"0", "1", "2", "3", "4", "5", "6", "7",
               "8", "9", "A", "B", "C", "D", "E", "F">>

\* f'{b:02X}' for a byte of a bytearray.
Hex2(b) == <<HexDigits[(b \div 16) + 1], HexDigits[(b % 16) + 1]>>

\* ' '.join(f'{b:02X}' for b in payload), as a sequence of characters.
RECURSIVE JoinHex(_)
JoinHex(payload) ==
    IF payload = <<>> THEN <<>>
    ELSE IF Len(payload) = 1 THEN Hex2(payload[1])
    ELSE Hex2(payload[1]) \o <<" ">> \o JoinHex(Tail(payload))

\* int(byte_val) & 0xFF
Mask8(v) == v % 256

\* _reset_state: the three fields of a decoder, cleared.
ResetState == [escape |-> FALSE, buffer |-> <<>>, frame_start_time |-> None]

\* _byte_spans: (byte_value, start_time, end_time) for each byte of the frame.
ByteSpans(frame) ==
    [i \in 1..Len(frame.data) |->
        [byte_val |-> frame.data[i],
         byte_start |-> frame.start_time,
         byte_end |-> frame.end_time]]

\* Mutant of EmitPacketFrame: the empty-buffer check is missing.
EmitPacketFrameNoEmptyCheck(self, end_time) ==
    <<[type |-> "slip_packet",
       start_time |-> IF Truthy(self.frame_start_time)
                      THEN self.frame_start_time ELSE end_time,
       end_time |-> end_time,
       payload_hex |-> JoinHex(self.buffer),
       length |-> Len(self.buffer)]>>

\* Mutant of EmitPacketFrame: length counts the characters of payload_hex.
EmitPacketFrameHexLength(self, end_time) ==
    IF self.buffer = <<>> THEN <<>>
    ELSE <<[type |-> "slip_packet",
            start_time |-> IF Truthy(self.frame_start_time)
                           THEN self.frame_start_time ELSE end_time,
            end_time |-> end_time,
            payload_hex |-> JoinHex(self.buffer),
            length |-> Len(JoinHex(self.buffer))]>>

\* _emit_packet_frame: <<>> for None, else the one slip_packet frame.
EmitPacketFrame(self, end_time) ==
    IF self.buffer = <<>> THEN <<>>
    ELSE <<[type |-> "slip_packet",
            start_time |-> IF Truthy(self.frame_start_time)
                           THEN self.frame_start_time ELSE end_time,
            end_time |-> end_time,
            payload_hex |-> JoinHex(self.buffer),
            length |-> Len(self.buffer)]>>

\* Mutant of EmitErrorFrame: the reset leaves frame_start_time as it was.
EmitErrorFramePartialReset(self, end_time, message, offending_byte) ==
    [frame |-> [type |-> "slip_error",
                start_time |-> IF Truthy(self.frame_start_time)
                               THEN self.frame_start_time ELSE end_time,
                end_time |-> end_time,
                message |-> message,
                byte |-> offending_byte],
     self |-> [self EXCEPT !.escape = FALSE, !.buffer = <<>>]]

\* Mutant of EmitErrorFrame: the state machine is not reset after an error.
EmitErrorFrameNoReset(self, end_time, message, offending_byte) ==
    [frame |-> [type |-> "slip_error",
                start_time |-> IF Truthy(self.frame_start_time)
                               THEN self.frame_start_time ELSE end_time,
                end_time |-> end_time,
                message |-> message,
                byte |-> offending_byte],
     self |-> self]

\* _emit_error_frame: the slip_error frame, and the decoder after the reset.
EmitErrorFrame(self, end_time, message, offending_byte) ==
    [frame |-> [type |-> "slip_error",
                start_time |-> IF Truthy(self.frame_start_time)
                               THEN self.frame_start_time ELSE end_time,
                end_time |-> end_time,
                message |-> message,
                byte |-> offending_byte],
     self |-> ResetState]

\* Lines 119-120: do not start a packet on a boundary END.
StartPacket(self, span) ==
    IF self.frame_start_time = None /\ span.byte_val # END
    THEN [self EXCEPT !.frame_start_time = span.byte_start]
    ELSE self

\* Mutant of EscapeBranch: the two substitutions are swapped.
EscapeBranchSwapped(self, span) ==
    IF span.byte_val = ESC_END
    THEN [self |-> [self EXCEPT !.buffer = Append(@, ESC), !.escape = FALSE],
          frames |-> <<>>]
    ELSE IF span.byte_val = ESC_ESC
    THEN [self |-> [self EXCEPT !.buffer = Append(@, END), !.escape = FALSE],
          frames |-> <<>>]
    ELSE LET err == EmitErrorFrame(self, span.byte_end,
                                   "Invalid escape sequence after 0xDB",
                                   span.byte_val)
         IN  [self |-> [err.self EXCEPT !.escape = FALSE],
              frames |-> <<err.frame>>]

\* Mutant of EscapeBranch: an unknown continuation is stored, not reported.
EscapeBranchNoError(self, span) ==
    IF span.byte_val = ESC_END
    THEN [self |-> [self EXCEPT !.buffer = Append(@, END), !.escape = FALSE],
          frames |-> <<>>]
    ELSE IF span.byte_val = ESC_ESC
    THEN [self |-> [self EXCEPT !.buffer = Append(@, ESC), !.escape = FALSE],
          frames |-> <<>>]
    ELSE [self |-> [self EXCEPT !.buffer = Append(@, Mask8(span.byte_val)),
                                !.escape = FALSE],
          frames |-> <<>>]

\* Lines 122-138: the previous byte was ESC.
EscapeBranch(self, span) ==
    IF span.byte_val = ESC_END
    THEN [self |-> [self EXCEPT !.buffer = Append(@, END), !.escape = FALSE],
          frames |-> <<>>]
    ELSE IF span.byte_val = ESC_ESC
    THEN [self |-> [self EXCEPT !.buffer = Append(@, ESC), !.escape = FALSE],
          frames |-> <<>>]
    ELSE LET err == EmitErrorFrame(self, span.byte_end,
                                   "Invalid escape sequence after 0xDB",
                                   span.byte_val)
         IN  [self |-> [err.self EXCEPT !.escape = FALSE],
              frames |-> <<err.frame>>]

\* Lines 141-146: ESC outside escape mode.
EscBranch(self, span) ==
    [self |-> [self EXCEPT !.escape = TRUE,
                           !.frame_start_time =
                               IF @ = None THEN span.byte_start ELSE @],
     frames |-> <<>>]

\* Mutant of EndBranch: the packet start time survives the END.
EndBranchKeepStart(self, span) ==
    [self |-> [self EXCEPT !.escape = FALSE, !.buffer = <<>>],
     frames |-> EmitPacketFrame(self, span.byte_end)]

\* Mutant of EndBranch: an END that finds no data is reported as an error.
EndBranchErrorOnEmpty(self, span) ==
    IF self.buffer = <<>>
    THEN LET err == EmitErrorFrame(self, span.byte_end, "END without data",
                                   span.byte_val)
         IN  [self |-> err.self, frames |-> <<err.frame>>]
    ELSE [self |-> ResetState, frames |-> EmitPacketFrame(self, span.byte_end)]

\* Lines 148-155: END outside escape mode.
EndBranch(self, span) ==
    [self |-> ResetState, frames |-> EmitPacketFrame(self, span.byte_end)]

\* Mutant of DataBranch: the mask keeps seven bits.
DataBranchMask7(self, span) ==
    [self |-> [self EXCEPT !.buffer = Append(@, span.byte_val % 128)],
     frames |-> <<>>]

\* Mutant of DataBranch: the byte is inserted at the front of the buffer.
DataBranchPrepend(self, span) ==
    [self |-> [self EXCEPT !.buffer = <<Mask8(span.byte_val)>> \o @],
     frames |-> <<>>]

\* Lines 157-158: regular data byte.
DataBranch(self, span) ==
    [self |-> [self EXCEPT !.buffer = Append(@, Mask8(span.byte_val))],
     frames |-> <<>>]

\* Mutant of LoopBody: ESC is recognised before the escape flag is tested.
LoopBodyEscFirst(self, span) ==
    LET s1 == StartPacket(self, span)
    IN  IF span.byte_val = ESC THEN EscBranch(s1, span)
        ELSE IF s1.escape THEN EscapeBranch(s1, span)
        ELSE IF span.byte_val = END THEN EndBranch(s1, span)
        ELSE DataBranch(s1, span)

\* Mutant of LoopBody: END is recognised before the escape flag is tested.
LoopBodyEndFirst(self, span) ==
    LET s1 == StartPacket(self, span)
    IN  IF span.byte_val = END THEN EndBranch(s1, span)
        ELSE IF s1.escape THEN EscapeBranch(s1, span)
        ELSE IF span.byte_val = ESC THEN EscBranch(s1, span)
        ELSE DataBranch(s1, span)

\* One iteration of the for loop of decode (lines 117-158).
LoopBody(self, span) ==
    LET s1 == StartPacket(self, span)
    IN  IF s1.escape THEN EscapeBranch(s1, span)
        ELSE IF span.byte_val = ESC THEN EscBranch(s1, span)
        ELSE IF span.byte_val = END THEN EndBranch(s1, span)
        ELSE DataBranch(s1, span)

\* Mutant of ForLoop: a new frame is inserted at the front of out_frames.
RECURSIVE ForLoopReversed(_, _, _, _, _)
ForLoopReversed(self, spans, i, out_frames, log) ==
    IF i > Len(spans)
    THEN [self |-> self, out_frames |-> out_frames, log |-> log]
    ELSE LET r == LoopBody(self, spans[i])
         IN  ForLoopReversed(r.self, spans, i + 1, r.frames \o out_frames,
                             Append(log, [byte_val |-> spans[i].byte_val,
                                          byte_start |-> spans[i].byte_start,
                                          byte_end |-> spans[i].byte_end,
                                          pre |-> self,
                                          post |-> r.self,
                                          frames |-> r.frames]))

\* Mutant of ForLoop: the loop stops at the first frame it produces.
RECURSIVE ForLoopBreak(_, _, _, _, _)
ForLoopBreak(self, spans, i, out_frames, log) ==
    IF i > Len(spans) \/ out_frames # <<>>
    THEN [self |-> self, out_frames |-> out_frames, log |-> log]
    ELSE LET r == LoopBody(self, spans[i])
         IN  ForLoopBreak(r.self, spans, i + 1, out_frames \o r.frames,
                          Append(log, [byte_val |-> spans[i].byte_val,
                                       byte_start |-> spans[i].byte_start,
                                       byte_end |-> spans[i].byte_end,
                                       pre |-> self,
                                       post |-> r.self,
                                       frames |-> r.frames]))

\* The for loop of decode: the decoder, out_frames and the log of iterations.
RECURSIVE ForLoop(_, _, _, _, _)
ForLoop(self, spans, i, out_frames, log) ==
    IF i > Len(spans)
    THEN [self |-> self, out_frames |-> out_frames, log |-> log]
    ELSE LET r == LoopBody(self, spans[i])
         IN  ForLoop(r.self, spans, i + 1, out_frames \o r.frames,
                     Append(log, [byte_val |-> spans[i].byte_val,
                                  byte_start |-> spans[i].byte_start,
                                  byte_end |-> spans[i].byte_end,
                                  pre |-> self,
                                  post |-> r.self,
                                  frames |-> r.frames]))

ReturnNone == [kind |-> "None"]
ReturnList(frames) == [kind |-> "list", frames |-> frames]

\* Mutant of Return: out_frames is returned even when it is empty.
ReturnAlwaysList(out_frames) == ReturnList(out_frames)

\* Lines 160-162: None when out_frames is empty, else the list.
Return(out_frames) ==
    IF out_frames = <<>> THEN ReturnNone ELSE ReturnList(out_frames)

\* Mutant of Decode: the frame type is not checked.
DecodeNoTypeCheck(self, frame) ==
    LET r == ForLoop(self, ByteSpans(frame), 1, <<>>, <<>>)
    IN  [self |-> r.self, ret |-> Return(r.out_frames), log |-> r.log]

\* Mutant of Decode: a pending escape does not survive the end of a call.
DecodeResetEscape(self, frame) ==
    IF frame.type # "data"
    THEN [self |-> self, ret |-> ReturnNone, log |-> <<>>]
    ELSE LET r == ForLoop([self EXCEPT !.escape = FALSE],
                          ByteSpans(frame), 1, <<>>, <<>>)
         IN  [self |-> r.self, ret |-> Return(r.out_frames), log |-> r.log]

\* Mutant of Decode: the bytes still buffered when the chunk ends are
\* flushed as a packet.
DecodeFlushPerCall(self, frame) ==
    IF frame.type # "data"
    THEN [self |-> self, ret |-> ReturnNone, log |-> <<>>]
    ELSE LET r == ForLoop(self, ByteSpans(frame), 1, <<>>, <<>>)
             flushed == r.self.buffer # <<>> /\ ~r.self.escape
         IN  [self |-> IF flushed THEN ResetState ELSE r.self,
              ret |-> Return(r.out_frames \o
                             (IF flushed
                              THEN EmitPacketFrame(r.self, frame.end_time)
                              ELSE <<>>)),
              log |-> r.log]

\* decode(frame) on decoder `self`: the decoder afterwards, the value
\* returned and the log of the loop's iterations.
Decode(self, frame) ==
    IF frame.type # "data"
    THEN [self |-> self, ret |-> ReturnNone, log |-> <<>>]
    ELSE LET r == ForLoop(self, ByteSpans(frame), 1, <<>>, <<>>)
         IN  [self |-> r.self, ret |-> Return(r.out_frames), log |-> r.log]

\* The frames the host receives from a returned value.
Received(ret) == IF ret.kind = "None" THEN <<>> ELSE ret.frames

(***************************************************************************)
(* State.                                                                  *)
(***************************************************************************)
VARIABLES
    escape,             \* self.escape
    buffer,             \* self.buffer
    frame_start_time,   \* self.frame_start_time
    input,              \* the byte stream the host delivers
    pos,                \* number of bytes of input delivered so far
    clock,              \* end time of the last frame delivered
    call,               \* the last decode call: frame, decoder before, result
    steps,              \* log of all loop iterations so far
    emitted,            \* all frames returned so far, in order
    peer                \* a second decoder fed the same stream

vars == <<escape, buffer, frame_start_time, input, pos, clock, call, steps,
          emitted, peer>>

Self == [escape |-> escape, buffer |-> buffer,
         frame_start_time |-> frame_start_time]

NoCall == [frame |-> [type |-> "none", data |-> <<>>,
                      start_time |-> 0, end_time |-> 0],
           pre |-> ResetState, ret |-> ReturnNone, n |-> 0]

RECURSIVE SeqsUpTo(_, _)
SeqsUpTo(S, n) ==
    IF n = 0 THEN {<<>>}
    ELSE LET shorter == SeqsUpTo(S, n - 1)
         IN  shorter \cup {Append(s, x) : s \in shorter, x \in S}

\* __init__ (lines 44-46) and the host state before the first frame.
InitWith(streams) ==
    /\ escape = ResetState.escape
    /\ buffer = ResetState.buffer
    /\ frame_start_time = ResetState.frame_start_time
    /\ input \in streams
    /\ pos = 0
    /\ clock = 0
    /\ call = NoCall
    /\ steps = <<>>
    /\ emitted = <<>>
    /\ peer = [self |-> ResetState, pos |-> 0, emitted |-> <<>>]

Init == InitWith(SeqsUpTo(ByteValues, MaxStream))

\* The host calls decode with a data frame holding the next k bytes; frame
\* number i of a capture spans the times i-1 .. i.
DecodeData ==
    \E k \in 0..(Len(input) - pos), s \in Times, e \in Times :
        /\ s = clock /\ e = s + 1
        /\ LET frame == [type |-> "data",
                         data |-> SubSeq(input, pos + 1, pos + k),
                         start_time |-> s, end_time |-> e]
               r == Decode(Self, frame)
           IN  /\ escape' = r.self.escape
               /\ buffer' = r.self.buffer
               /\ frame_start_time' = r.self.frame_start_time
               /\ call' = [frame |-> frame, pre |-> Self, ret |-> r.ret,
                           n |-> Len(r.log)]
               /\ steps' = steps \o r.log
               /\ emitted' = emitted \o Received(r.ret)
        /\ pos' = pos + k
        /\ clock' = e
        /\ UNCHANGED <<input, peer>>

\* The host calls decode with a frame that is not a data frame.
DecodeOther ==
    \E data \in {<<85, END>>, <<ESC, 448>>} :
        /\ LET frame == [type |-> "error", data |-> data,
                         start_time |-> clock, end_time |-> clock]
               r == Decode(Self, frame)
           IN  /\ escape' = r.self.escape
               /\ buffer' = r.self.buffer
               /\ frame_start_time' = r.self.frame_start_time
               /\ call' = [frame |-> frame, pre |-> Self, ret |-> r.ret,
                           n |-> Len(r.log)]
               /\ steps' = steps \o r.log
               /\ emitted' = emitted \o Received(r.ret)
        /\ UNCHANGED <<input, pos, clock, peer>>

Next == DecodeData \/ DecodeOther

Spec == Init /\ [][Next]_vars

(***************************************************************************)
(* Reading the output back: what a consumer of the frames sees.            *)
(***************************************************************************)

\* The value of one hexadecimal digit character.
HexVal(c) == CHOOSE v \in 0..15 : HexDigits[v + 1] = c

\* The bytes a payload_hex string stands for: two-digit tokens separated by
\* single spaces.  <<-1>> marks a string that is not of that form.
RECURSIVE ParseHex(_)
ParseHex(chars) ==
    IF chars = <<>> THEN <<>>
    ELSE IF Len(chars) < 2 \/ chars[1] = " " \/ chars[2] = " " THEN <<-1>>
    ELSE LET b == 16 * HexVal(chars[1]) + HexVal(chars[2])
         IN  IF Len(chars) = 2 THEN <<b>>
             ELSE IF Len(chars) < 5 \/ chars[3] # " " THEN <<-1>>
             ELSE <<b>> \o ParseHex(SubSeq(chars, 4, Len(chars)))

\* The frames of one type among fs, in order.
RECURSIVE OfType(_, _)
OfType(fs, type) ==
    IF fs = <<>> THEN <<>>
    ELSE IF fs[1].type = type THEN <<fs[1]>> \o OfType(Tail(fs), type)
    ELSE OfType(Tail(fs), type)

Packets(fs) == OfType(fs, "slip_packet")
Errors(fs) == OfType(fs, "slip_error")

\* fs is exactly one slip_packet frame and it carries payload P.
OnePacketWith(fs, P) ==
    /\ Len(fs) = 1
    /\ fs[1].type = "slip_packet"
    /\ ParseHex(fs[1].payload_hex) = P
    /\ fs[1].length = Len(P)

\* The whole stream has been delivered.
Delivered == pos = Len(input)

(***************************************************************************)
(* C1: round trip of END + P + END.                                        *)
(***************************************************************************)

\* Payload bytes in 0..255 other than 0xC0 and 0xDB.
PlainBytes == {0, 85, ESC_END, 255}

PlainFrames == {<<END>> \o P \o <<END>> : P \in SeqsUpTo(PlainBytes, MaxPayload)}

InitRoundTrip == InitWith(PlainFrames)
RoundTripSpec == InitRoundTrip /\ [][Next]_vars

\* input is END + P + END with no 0xC0/0xDB in P, all in 0..255.
IsPlainFrame(s) ==
    /\ Len(s) >= 2
    /\ s[1] = END /\ s[Len(s)] = END
    /\ \A i \in 2..(Len(s) - 1) : s[i] \in 0..255 /\ s[i] \notin {END, ESC}

Inner(s) == SubSeq(s, 2, Len(s) - 1)

\* C1 as stated: for every P, the empty one included, decoding END + P + END
\* from a fresh decoder yields exactly one slip_packet, with payload P.
C1_RoundTripAnyLength ==
    (IsPlainFrame(input) /\ Delivered) =>
        OnePacketWith(Packets(emitted), Inner(input))

\* C1 amended: for every non-empty P (bytes in 0..255, no 0xC0/0xDB),
\* decoding END + P + END from a fresh decoder yields exactly one event, a
\* slip_packet with payload P and length len(P); for the empty P it yields
\* no event at all.
C1_RoundTrip ==
    (IsPlainFrame(input) /\ Delivered) =>
        IF Inner(input) = <<>> THEN emitted = <<>>
        ELSE OnePacketWith(emitted, Inner(input))

\* A frame with a payload of two different bytes has been decoded in more
\* than one call.
C1_Witness ==
    /\ IsPlainFrame(input) /\ Delivered
    /\ Len(input) >= 4 /\ input[2] # input[3]
    /\ clock >= 2
    /\ Len(emitted) = 1

(***************************************************************************)
(* C2: escape correctness.                                                 *)
(***************************************************************************)

\* SLIP encoding of a payload: 0xC0 -> 0xDB 0xDC, 0xDB -> 0xDB 0xDD.
RECURSIVE SlipEncode(_)
SlipEncode(P) ==
    IF P = <<>> THEN <<>>
    ELSE (IF P[1] = END THEN <<ESC, ESC_END>>
          ELSE IF P[1] = ESC THEN <<ESC, ESC_ESC>>
          ELSE <<P[1]>>) \o SlipEncode(Tail(P))

\* Payload bytes in 0..255, the SLIP tokens among them.
AnyBytes == {END, ESC, ESC_ESC, 85}

EscapePayloads == SeqsUpTo(AnyBytes, MaxPayload) \ {<<>>}

InitEscape == InitWith({SlipEncode(P) \o <<END>> : P \in EscapePayloads})
EscapeSpec == InitEscape /\ [][Next]_vars

\* C2: for every non-empty payload P over 0..255, decoding SlipEncode(P)
\* followed by END from a fresh decoder yields exactly one event, a
\* slip_packet whose payload is P, and no slip_error.
C2_EscapeCorrectness ==
    Delivered =>
        \A P \in EscapePayloads :
            input = SlipEncode(P) \o <<END>> => OnePacketWith(emitted, P)

\* A payload holding a literal 0xC0 and a literal 0xDB has been decoded, the
\* stream having been split inside an escape sequence.
C2_Witness ==
    /\ \E P \in EscapePayloads :
          /\ input = SlipEncode(P) \o <<END>>
          /\ \E i, j \in 1..Len(P) : P[i] = END /\ P[j] = ESC
    /\ Delivered
    /\ \E i \in 1..Len(steps) : steps[i].pre.escape /\ steps[i].byte_start > 0
    /\ Len(emitted) = 1

(***************************************************************************)
(* C4: error recovery.                                                     *)
(***************************************************************************)

\* Bytes that are not a valid continuation of ESC.
BadContinuations == {85, END, ESC, 448}

\* Well-formed frames with a non-empty payload, with or without leading END.
RecoveryPayloads == {<<85>>, <<END>>, <<85, ESC>>, <<ESC_END, ESC_ESC, 0>>}
LeadingEnds == {<<>>, <<END>>}

\* An invalid escape, then a well-formed frame.
RecoveryStreams ==
    {<<ESC, b>> \o lead \o SlipEncode(P) \o <<END>> :
        b \in BadContinuations, lead \in LeadingEnds, P \in RecoveryPayloads}

InitRecovery == InitWith(RecoveryStreams)
RecoverySpec == InitRecovery /\ [][Next]_vars

IsErrorWith(f, b) ==
    /\ f.type = "slip_error"
    /\ f.byte = b
    /\ f.message = "Invalid escape sequence after 0xDB"

\* C4: from the initial state, ESC followed by a byte b other than 0xDC and
\* 0xDD yields exactly one slip_error with byte = b and no packet; a
\* well-formed frame with non-empty payload P fed right after (same call or
\* a later one) yields exactly one slip_packet with payload P.
C4_ErrorRecovery ==
    pos >= 2 =>
        \A b \in BadContinuations, lead \in LeadingEnds,
           P \in RecoveryPayloads :
            input = <<ESC, b>> \o lead \o SlipEncode(P) \o <<END>> =>
                /\ steps[1].frames = <<>>
                /\ Len(steps[2].frames) = 1
                /\ IsErrorWith(steps[2].frames[1], b)
                /\ Len(emitted) >= 1 /\ emitted[1] = steps[2].frames[1]
                /\ Delivered =>
                      /\ Len(emitted) = 2
                      /\ OnePacketWith(Tail(emitted), P)

\* ESC, b and a following frame have been decoded, the frame arriving in a
\* later call than the error.
C4_Witness ==
    /\ \E b \in BadContinuations, lead \in LeadingEnds, P \in RecoveryPayloads :
          input = <<ESC, b>> \o lead \o SlipEncode(P) \o <<END>>
    /\ Delivered
    /\ steps[2].byte_end < steps[3].byte_end
    /\ Len(emitted) = 2

(***************************************************************************)
(* C5: idempotent boundaries.                                              *)
(***************************************************************************)

\* The bytes delivered so far.
Consumed == SubSeq(input, 1, pos)

\* C5: while only END bytes (at least one) have been fed to a fresh decoder,
\* in any chunking, no event has been produced and the decoder is in its
\* initial state after every one of those bytes.
C5_IdempotentBoundaries ==
    (pos >= 1 /\ \A i \in 1..pos : input[i] = END) =>
        /\ emitted = <<>>
        /\ call.frame.type = "data" => call.ret = ReturnNone
        /\ Len(steps) = pos
        /\ \A i \in 1..Len(steps) :
              steps[i].frames = <<>> /\ steps[i].post = ResetState
        /\ Self = ResetState

\* Three END bytes have been fed in more than one call.
C5_Witness ==
    /\ pos >= 3 /\ \A i \in 1..pos : input[i] = END
    /\ steps[1].byte_end < steps[pos].byte_end

(***************************************************************************)
(* C3: chunk-boundary independence.                                        *)
(***************************************************************************)

\* A second decoder is fed the same stream in chunks of its own.
PeerDecodeData ==
    \E k \in 0..(Len(input) - peer.pos) :
        /\ LET frame == [type |-> "data",
                         data |-> SubSeq(input, peer.pos + 1, peer.pos + k),
                         start_time |-> MaxTime, end_time |-> MaxTime]
               r == Decode(peer.self, frame)
           IN  peer' = [self |-> r.self,
                        pos |-> peer.pos + k,
                        emitted |-> peer.emitted \o Received(r.ret)]
        /\ UNCHANGED <<escape, buffer, frame_start_time, input, pos, clock,
                       call, steps, emitted>>

PairNext == DecodeData \/ PeerDecodeData
PairSpec == Init /\ [][PairNext]_vars

\* An event without its time span.
Untimed(f) ==
    IF f.type = "slip_packet"
    THEN [type |-> f.type, payload_hex |-> f.payload_hex, length |-> f.length]
    ELSE [type |-> f.type, message |-> f.message, byte |-> f.byte]

UntimedAll(fs) == [i \in 1..Len(fs) |-> Untimed(fs[i])]

\* C3: two decoders started in the initial state and fed the same bytes in
\* two different chunkings (empty chunks and a split between ESC and its
\* continuation included) have produced the same sequence of events (kinds,
\* payloads, lengths, messages, bytes, in order) and hold the same escape
\* flag and buffer.
C3_ChunkIndependence ==
    peer.pos = pos =>
        /\ UntimedAll(emitted) = UntimedAll(peer.emitted)
        /\ escape = peer.self.escape
        /\ buffer = peer.self.buffer

\* Both decoders have consumed the same bytes; the first got an ESC and its
\* continuation in two different calls.
C3_Witness ==
    /\ peer.pos = pos /\ pos >= 2
    /\ \E i \in 2..pos :
          /\ steps[i].pre.escape
          /\ steps[i - 1].byte_end < steps[i].byte_end
    /\ \/ buffer # <<>>
       \/ emitted # <<>>

(***************************************************************************)
(* C7: non-data chunks are ignored.                                        *)
(***************************************************************************)

\* C7: a decode call with a frame whose type is not 'data' returns None,
\* runs no loop iteration and leaves escape, buffer and frame_start_time as
\* they were before the call, whatever the decoder state and the bytes.
C7_NonDataIgnored ==
    call.frame.type \notin {"data", "none"} =>
        /\ call.ret = ReturnNone
        /\ call.n = 0
        /\ Self = call.pre

\* A non-data frame carrying bytes arrived mid-packet and mid-escape.
C7_Witness ==
    /\ call.frame.type = "error"
    /\ call.frame.data # <<>>
    /\ escape /\ buffer # <<>>

(***************************************************************************)
(* C8: no flush without END.                                               *)
(***************************************************************************)

\* The frames of all logged iterations, in order.
RECURSIVE StepFrames(_)
StepFrames(log) ==
    IF log = <<>> THEN <<>> ELSE log[1].frames \o StepFrames(Tail(log))

IsPrefix(s, t) == Len(s) <= Len(t) /\ SubSeq(t, 1, Len(s)) = s

\* C8: every slip_packet the host receives was produced by an iteration on
\* an END byte outside escape mode; while no 0xC0 has been delivered no
\* slip_packet has been emitted; and an iteration that is neither an END
\* outside escape mode nor an error keeps the buffered bytes.
C8_NoFlushWithoutEnd ==
    /\ emitted = StepFrames(steps)
    /\ \A i \in 1..Len(steps) :
          /\ Packets(steps[i].frames) # <<>> =>
                steps[i].byte_val = END /\ ~steps[i].pre.escape
          /\ (steps[i].frames = <<>>
              /\ ~(steps[i].byte_val = END /\ ~steps[i].pre.escape)) =>
                IsPrefix(steps[i].pre.buffer, steps[i].post.buffer)
    /\ (\A i \in 1..pos : input[i] # END) => Packets(emitted) = <<>>

\* Three bytes without END were delivered in several calls and are all held
\* in the buffer.
C8_Witness ==
    /\ pos = 3 /\ \A i \in 1..pos : input[i] # END
    /\ Len(buffer) = 3
    /\ clock >= 2

(***************************************************************************)
(* C6: several frames in one chunk.                                        *)
(***************************************************************************)

MultiPayloads == {<<85>>, <<END>>, <<85, ESC>>}

\* END, P1, END, P2, END, ... with each Pi SLIP-encoded.
RECURSIVE FramesOf(_)
FramesOf(Ps) ==
    IF Ps = <<>> THEN <<>>
    ELSE SlipEncode(Ps[1]) \o <<END>> \o FramesOf(Tail(Ps))

MultiFrame(Ps) == <<END>> \o FramesOf(Ps)

PayloadLists == {Ps \in SeqsUpTo(MultiPayloads, MaxFrames) : Len(Ps) >= 2}

InitMulti == InitWith({MultiFrame(Ps) : Ps \in PayloadLists})
MultiSpec == InitMulti /\ [][Next]_vars

\* The log of the iterations of the last call.
CallSteps == SubSeq(steps, Len(steps) - call.n + 1, Len(steps))

Segments == {<<END>>, <<85>>, <<ESC, ESC_END>>, <<ESC, 85>>, <<448, END>>}

RECURSIVE Concats(_, _)
Concats(S, n) ==
    IF n = 0 THEN {<<>>}
    ELSE LET shorter == Concats(S, n - 1)
         IN  shorter \cup {s \o x : s \in shorter, x \in S}

InitSegment == InitWith(Concats(Segments, MaxSegments))
SegmentSpec == InitSegment /\ [][Next]_vars

\* Iteration i reset the decoder: an END outside escape mode, or an error.
IsReset(i) ==
    \/ steps[i].byte_val = END /\ ~steps[i].pre.escape
    \/ Errors(steps[i].frames) # <<>>

\* The last iteration before j that reset the decoder; 0 when there is none.
LastReset(j) ==
    LET resets == {i \in 1..(j - 1) : IsReset(i)}
    IN  IF resets = {} THEN 0
        ELSE CHOOSE i \in resets : \A k \in resets : k <= i

\* The byte values of iterations a..b.
StepBytes(a, b) == [i \in 1..(b - a + 1) |-> steps[a + i - 1].byte_val]

\* SLIP decoding of a run of bytes without END: escapes replaced, other
\* bytes taken modulo 256; a trailing lone ESC stands for nothing yet.
RECURSIVE SlipDecode(_)
SlipDecode(bytes) ==
    IF bytes = <<>> THEN <<>>
    ELSE IF bytes[1] = ESC
    THEN IF Len(bytes) = 1 THEN <<>>
         ELSE <<(IF bytes[2] = ESC_END THEN END
                 ELSE IF bytes[2] = ESC_ESC THEN ESC ELSE -1)>>
              \o SlipDecode(SubSeq(bytes, 3, Len(bytes)))
    ELSE <<bytes[1] % 256>> \o SlipDecode(Tail(bytes))

\* C9: an iteration that emits a slip_error leaves nothing buffered, and the
\* payload of every slip_packet is the decoding of exactly the bytes
\* consumed after the most recent reset (END outside escape mode or error)
\* and before its terminating END; so no byte consumed before an error
\* appears in a later packet.  The buffer holds the decoding of the bytes
\* consumed since the most recent reset.
C9_DiscardOnError ==
    /\ emitted = StepFrames(steps)
    /\ \A j \in 1..Len(steps) :
          /\ Len(steps[j].frames) <= 1
          /\ Errors(steps[j].frames) # <<>> => steps[j].post = ResetState
          /\ Packets(steps[j].frames) # <<>> =>
                OnePacketWith(steps[j].frames,
                              SlipDecode(StepBytes(LastReset(j) + 1, j - 1)))
    /\ buffer = SlipDecode(StepBytes(LastReset(Len(steps) + 1) + 1, Len(steps)))

\* A byte was buffered, an invalid escape followed, and a packet was emitted
\* after the error.
C9_Witness ==
    /\ Len(emitted) = 2
    /\ emitted[1].type = "slip_error" /\ emitted[2].type = "slip_packet"
    /\ \E j \in 1..Len(steps) :
          Errors(steps[j].frames) # <<>> /\ steps[j].pre.buffer # <<>>

\* C10 as stated: every event ends at the end time of the byte that
\* triggered it and starts at the start time of the first byte consumed
\* since the last reset, for every timestamp; the times of a byte are those
\* of the chunk it arrived in.
C10_EventTimeSpan ==
    /\ \A j \in 1..Len(steps) :
          steps[j].frames # <<>> =>
              /\ steps[j].frames[1].end_time = steps[j].byte_end
              /\ steps[j].frames[1].start_time =
                     steps[LastReset(j) + 1].byte_start
    /\ \A i \in 1..Len(CallSteps) :
          /\ CallSteps[i].byte_start = call.frame.start_time
          /\ CallSteps[i].byte_end = call.frame.end_time

(***************************************************************************)
(* C11: no empty packets.                                                  *)
(***************************************************************************)

\* The number of two-digit tokens of a payload_hex string.
HexTokens(chars) == (Len(chars) + 1) \div 3

\* C11: every slip_packet the host receives has length >= 1, its length is
\* the number of bytes of its payload (the two-digit tokens of payload_hex,
\* each a byte in 0..255), and an END outside escape mode that finds the
\* buffer empty emits no event.
C11_NoEmptyPackets ==
    /\ emitted = StepFrames(steps)
    /\ \A k \in 1..Len(emitted) :
          emitted[k].type = "slip_packet" =>
              /\ emitted[k].length >= 1
              /\ emitted[k].length = HexTokens(emitted[k].payload_hex)
              /\ emitted[k].length = Len(ParseHex(emitted[k].payload_hex))
              /\ \A i \in 1..emitted[k].length :
                    ParseHex(emitted[k].payload_hex)[i] \in 0..255
    /\ \A j \in 1..Len(steps) :
          (steps[j].byte_val = END /\ ~steps[j].pre.escape
           /\ steps[j].pre.buffer = <<>>) => steps[j].frames = <<>>

\* A packet of two bytes was emitted and a later END found the buffer empty.
C11_Witness ==
    /\ Len(emitted) = 1 /\ emitted[1].type = "slip_packet"
    /\ emitted[1].length = 2
    /\ \E j \in 1..Len(steps) :
          /\ steps[j].byte_val = END /\ steps[j].pre.buffer = <<>>
          /\ \E i \in 1..(j - 1) : steps[i].frames # <<>>

(***************************************************************************)
(* C12: shape of the value decode returns.                                 *)
(***************************************************************************)

\* C12: decode returns None exactly when the chunk produced no event;
\* otherwise it returns the non-empty list of the events the loop produced,
\* in order.  It never returns an empty list, and a data chunk with zero
\* bytes returns None and changes no field.
C12_BatchReturnShape ==
    call.frame.type # "none" =>
        /\ call.ret.kind = "None" <=> StepFrames(CallSteps) = <<>>
        /\ call.ret.kind \in {"None", "list"}
        /\ call.ret.kind = "list" =>
              /\ call.ret.frames # <<>>
              /\ call.ret.frames = StepFrames(CallSteps)
        /\ call.frame.type = "data" => call.n = Len(call.frame.data)
        /\ call.frame.data = <<>> =>
              call.ret = ReturnNone /\ Self = call.pre

\* One call returned an error followed by a packet.
C12_Witness ==
    /\ call.frame.type = "data"
    /\ call.ret.kind = "list" /\ Len(call.ret.frames) = 2
    /\ call.ret.frames[1].type = "slip_error"
    /\ call.ret.frames[2].type = "slip_packet"

(***************************************************************************)
(* C13: append-only buffer, atomic reset.                                  *)
(***************************************************************************)

\* C13: every loop iteration leaves the buffer unchanged, or appends exactly
\* one byte to it, or resets the decoder, all three fields cleared together;
\* the buffer never shrinks and frame_start_time never returns to None in
\* any other way, and every END outside escape mode and every error resets.
C13_AppendOnlyAtomicReset ==
    \A j \in 1..Len(steps) :
        LET p == steps[j].pre
            q == steps[j].post
        IN  /\ \/ q.buffer = p.buffer
               \/ Len(q.buffer) = Len(p.buffer) + 1 /\ IsPrefix(p.buffer, q.buffer)
               \/ q = ResetState
            /\ (\/ ~IsPrefix(p.buffer, q.buffer)
                \/ p.frame_start_time # None /\ q.frame_start_time = None) =>
                  q = ResetState
            /\ IsReset(j) => q = ResetState

\* A byte was appended, an ESC left the buffer as it was, and a later
\* iteration reset a decoder that held bytes.
C13_Witness ==
    /\ \E j \in 1..Len(steps) :
          Len(steps[j].post.buffer) = Len(steps[j].pre.buffer) + 1
    /\ \E j \in 1..Len(steps) :
          steps[j].post.escape /\ steps[j].post.buffer = steps[j].pre.buffer
                               /\ steps[j].pre.buffer # <<>>
    /\ \E j \in 1..Len(steps) :
          steps[j].pre.buffer # <<>> /\ steps[j].post = ResetState

(***************************************************************************)
(* C14: reset after every event.                                           *)
(***************************************************************************)

\* C14: right after the iteration that emits a slip_packet or a slip_error
\* the decoder is in its initial state, and the loop goes on with the
\* remaining bytes of the same chunk: a data call runs one iteration per
\* byte, each starting from the state the previous one left.
C14_ResetAfterEvent ==
    /\ \A j \in 1..Len(steps) :
          steps[j].frames # <<>> => steps[j].post = ResetState
    /\ call.frame.type = "data" =>
          /\ call.n = Len(call.frame.data)
          /\ call.n >= 1 =>
                /\ CallSteps[1].pre = call.pre
                /\ CallSteps[call.n].post = Self
          /\ \A i \in 1..(call.n - 1) :
                /\ CallSteps[i + 1].pre = CallSteps[i].post
                /\ CallSteps[i + 1].byte_val = call.frame.data[i + 1]

\* An event was emitted by an iteration of a call and a later iteration of
\* the same call buffered a byte.
C14_Witness ==
    /\ call.frame.type = "data"
    /\ \E i \in 1..(call.n - 1) :
          /\ CallSteps[i].frames # <<>>
          /\ CallSteps[i].pre # ResetState
          /\ CallSteps[i + 1].post.buffer # <<>>

(***************************************************************************)
(* C15: the single error kind.                                             *)
(***************************************************************************)

\* C15: an iteration emits a slip_error exactly when it runs in escape mode
\* on a byte that is neither 0xDC nor 0xDD; the error carries the message
\* 'Invalid escape sequence after 0xDB' and that byte.  Nothing else the
\* host receives is an error.
C15_SingleErrorKind ==
    /\ emitted = StepFrames(steps)
    /\ \A j \in 1..Len(steps) :
          /\ Errors(steps[j].frames) # <<>> <=>
                (steps[j].pre.escape
                 /\ steps[j].byte_val \notin {ESC_END, ESC_ESC})
          /\ Errors(steps[j].frames) # <<>> =>
                /\ Len(steps[j].frames) = 1
                /\ IsErrorWith(steps[j].frames[1], steps[j].byte_val)

\* An error was emitted, and an END that found the buffer empty outside
\* escape mode produced none.
C15_Witness ==
    /\ Errors(emitted) # <<>>
    /\ \E j \in 1..Len(steps) :
          /\ steps[j].byte_val = END /\ ~steps[j].pre.escape
          /\ steps[j].pre.buffer = <<>>

(***************************************************************************)
(* C16: when the escape flag is set.                                       *)
(***************************************************************************)

\* C16 as stated: escape is true after an iteration if and only if its byte
\* was 0xDB.
C16_EscapeIffEscByte ==
    \A j \in 1..Len(steps) :
        steps[j].post.escape <=> steps[j].byte_val = ESC

\* C16 amended: escape is true after an iteration if and only if its byte
\* was 0xDB and the decoder was not in escape mode before it; the byte that
\* follows is taken as an escape continuation: it clears the flag and either
\* appends the literal (0xDC -> 0xC0, 0xDD -> 0xDB) or is reported as an
\* error, 0xDB included.
C16_EscapeAfterEscMarker ==
    /\ \A j \in 1..Len(steps) :
          /\ steps[j].post.escape <=>
                (steps[j].byte_val = ESC /\ ~steps[j].pre.escape)
          /\ steps[j].pre.escape =>
                IF steps[j].byte_val \in {ESC_END, ESC_ESC}
                THEN /\ steps[j].frames = <<>>
                     /\ steps[j].post.buffer =
                            Append(steps[j].pre.buffer,
                                   IF steps[j].byte_val = ESC_END
                                   THEN END ELSE ESC)
                ELSE Errors(steps[j].frames) # <<>>
    /\ Len(steps) >= 1 => escape = steps[Len(steps)].post.escape

\* A 0xDB was consumed in escape mode, and a later 0xDB set the flag.
C16_Witness ==
    /\ escape
    /\ \E j \in 1..Len(steps) : steps[j].byte_val = ESC /\ steps[j].pre.escape

(***************************************************************************)
(* C17, C18: range of the bytes stored and reported.                       *)
(***************************************************************************)

\* C17: every byte held in the buffer, and every byte of every emitted
\* packet payload, is in 0..255, whatever integers the host delivers; an
\* ordinary data byte v (outside escape mode, neither END nor ESC) is
\* stored as v mod 256.
C17_StoredBytesMasked ==
    /\ \A i \in 1..Len(buffer) : buffer[i] \in 0..255
    /\ \A k \in 1..Len(emitted) :
          emitted[k].type = "slip_packet" =>
              \A i \in 1..Len(ParseHex(emitted[k].payload_hex)) :
                  ParseHex(emitted[k].payload_hex)[i] \in 0..255
    /\ \A j \in 1..Len(steps) :
          /\ \A i \in 1..Len(steps[j].post.buffer) :
                steps[j].post.buffer[i] \in 0..255
          /\ (~steps[j].pre.escape /\ steps[j].byte_val \notin {END, ESC}) =>
                steps[j].post.buffer =
                    Append(steps[j].pre.buffer, steps[j].byte_val % 256)

\* A value wider than 8 bits was stored and came out in a packet as its low
\* byte.
C17_Witness ==
    /\ \E j \in 1..Len(steps) :
          steps[j].byte_val > 255 /\ ~steps[j].pre.escape
    /\ Len(emitted) = 1 /\ emitted[1].type = "slip_packet"
    /\ ParseHex(emitted[1].payload_hex) = <<85, END>>

\* C18 as stated: the byte field of every slip_error the host receives is
\* the offending byte and lies in 0..255, for every integer the host
\* delivers, values wider than 8 bits included.
C18_ErrorByteRange ==
    /\ \A k \in 1..Len(emitted) :
          emitted[k].type = "slip_error" => emitted[k].byte \in 0..255
    /\ \A j \in 1..Len(steps) :
          Errors(steps[j].frames) # <<>> =>
              steps[j].frames[1].byte = steps[j].byte_val

(***************************************************************************)
(* C19: frame_start_time against buffer and escape.                        *)
(***************************************************************************)

StateInvariant(self) ==
    self.frame_start_time = None <=> (self.buffer = <<>> /\ ~self.escape)

\* C19: between loop iterations, frame_start_time is None exactly when the
\* buffer is empty and escape is false; so frame_start_time is set whenever
\* a packet or an error is emitted, and an END that finds the buffer empty
\* outside escape mode finds frame_start_time None.
C19_StartTimeInvariant ==
    /\ StateInvariant(Self)
    /\ \A j \in 1..Len(steps) :
          /\ StateInvariant(steps[j].pre)
          /\ StateInvariant(steps[j].post)
          /\ steps[j].frames # <<>> => steps[j].pre.frame_start_time # None
          /\ (steps[j].byte_val = END /\ ~steps[j].pre.escape
              /\ steps[j].pre.buffer = <<>>) =>
                steps[j].pre.frame_start_time = None

\* An error was emitted, and the decoder is again in escape mode with an
\* empty buffer and the start time set.
C19_Witness ==
    /\ Errors(emitted) # <<>>
    /\ escape /\ buffer = <<>> /\ frame_start_time # None

(***************************************************************************)
(* C20: END in escape mode.                                                *)
(***************************************************************************)

\* Up to two buffered bytes, ESC, END, and what may follow.
EndEscapeStreams ==
    {g \o <<ESC, END>> \o t :
        g \in SeqsUpTo({85, ESC_END}, 2),
        t \in {<<>>, <<END>>, <<85, END>>, <<ESC, ESC_ESC, END>>}}

InitEndEscape == InitWith(EndEscapeStreams)
EndEscapeSpec == InitEndEscape /\ [][Next]_vars

\* C20: an END received in escape mode is no packet boundary: the iteration
\* emits exactly one slip_error with byte 0xC0 and no slip_packet, the bytes
\* buffered before the ESC are dropped, and the decoder is then in its
\* initial state.
C20_EndInEscape ==
    \A j \in 1..Len(steps) :
        (steps[j].byte_val = END /\ steps[j].pre.escape) =>
            /\ Len(steps[j].frames) = 1
            /\ IsErrorWith(steps[j].frames[1], END)
            /\ steps[j].post = ResetState
            /\ \A k \in (j + 1)..Len(steps) :
                  Packets(steps[k].frames) # <<>> =>
                      OnePacketWith(steps[k].frames,
                          SlipDecode(StepBytes(LastReset(k) + 1, k - 1)))
                      /\ LastReset(k) >= j

\* An END met a non-empty buffer in escape mode, and a packet was emitted
\* after the error.
C20_Witness ==
    /\ \E j \in 1..Len(steps) :
          /\ steps[j].byte_val = END /\ steps[j].pre.escape
          /\ steps[j].pre.buffer # <<>>
    /\ Len(emitted) = 2 /\ emitted[2].type = "slip_packet"

====
